---- MODULE Spec2Model ----
(***************************************************************************)
(* notevil: a tree-walking evaluator for parsed script source              *)
(* (src/index.js).  The evaluator's recursive walk(node) is modelled as a  *)
(* machine with an explicit continuation stack: `ctl` is the node being    *)
(* walked (or the value / failure travelling back to the caller), `stack`  *)
(* holds one frame per pending call of walk, walkAll, setValue or of a     *)
(* closure made by getFunction, and `heap` holds the scope frames          *)
(* (contexts), objects, arrays and closures, linked by their prototype     *)
(* link.                                                                   *)
(*                                                                         *)
(* Node kinds of walk's switch that no checked property needs              *)
(* (UnaryExpression, ArrayExpression, NewExpression, LogicalExpression,    *)
(* ConditionalExpression) are left out; the scripts evaluated never        *)
(* contain them.                                                           *)
(***************************************************************************)
EXTENDS Integers, Sequences, FiniteSets, TLC

\* The loop ceiling (src/index.js:12 sets 1000000; a small ceiling is
\* injected here so that a loop can exceed it).
maxIterations == 2
\* Numbers a script may compute stay within -MaxNum .. MaxNum.
MaxNum == 9
\* Cells the heap may hold.
MaxHeap == 24

VARIABLES
  heap,             \* the host's objects: scope frames, objects, closures
  stack,            \* the pending calls of walk, innermost first
  ctl,              \* the node walked, or the result on its way back
  last,             \* what setValue decided in the last step, if it ran
  nullIsPrimitive   \* whether the guard's primitive check holds of null

vars == <<heap, stack, ctl, last, nullIsPrimitive>>

(***************************************************************************)
(* Values.  Every value is a record: its type t and, by type, its payload. *)
(***************************************************************************)
Undefined == [t |-> "undefined"]
Null == [t |-> "null"]
NaN == [t |-> "NaN"]
Num(n) == [t |-> "number", n |-> n]
Str(s) == [t |-> "string", s |-> s]
Bool(b) == [t |-> "boolean", b |-> b]
\* a reference to heap cell id: a scope frame, an object, an array, a closure
Ref(id) == [t |-> "object", id |-> id]
\* a host Error object, as raised by the host or by the evaluator
Error(msg) == [t |-> "error", msg |-> msg]
TypeError == Error("TypeError")
InfiniteLoop == Error("Infinite loop detected - reached max iterations")
Unsupported == Error("Unsupported expression")

IsRef(val) == val.t = "object"
IsNullish(val) == val.t \in {"undefined", "null"}

\* a ReturnValue struct for differentiating between expression result and
\* return statement
ReturnValue(type, value) ==
  [t |-> "ReturnValue", type |-> type, value |-> value]

IsReturnValue(val) == val.t = "ReturnValue"

finalValue(value) == IF IsReturnValue(value) THEN value.value ELSE value

\* the host's ToBoolean
Truthy(val) ==
  CASE val.t \in {"undefined", "null", "NaN"} -> FALSE
    [] val.t = "number" -> val.n # 0
    [] val.t = "string" -> val.s # ""
    [] val.t = "boolean" -> val.b
    [] OTHER -> TRUE

\* the host's ToNumber, for the values scripts compute with here (a string
\* or an object operand is outside the scripts evaluated)
ToNumber(val) ==
  CASE val.t = "number" -> val
    [] val.t = "null" -> Num(0)
    [] val.t = "boolean" -> Num(IF val.b THEN 1 ELSE 0)
    [] OTHER -> NaN

\* the host's ToString of a property key
ToKey(val) ==
  CASE val.t = "string" -> val.s
    [] val.t = "number" -> ToString(val.n)
    [] val.t = "boolean" -> IF val.b THEN "true" ELSE "false"
    [] val.t = "object" -> "[object Object]"
    [] OTHER -> val.t

InRange(val) == val.t = "number" => (val.n >= -MaxNum /\ val.n <= MaxNum)

Plus(l, r) ==
  LET a == ToNumber(l)
      b == ToNumber(r)
  IN IF a.t = "NaN" \/ b.t = "NaN" THEN NaN ELSE Num(a.n + b.n)

Minus(l, r) ==
  LET a == ToNumber(l)
      b == ToNumber(r)
  IN IF a.t = "NaN" \/ b.t = "NaN" THEN NaN ELSE Num(a.n - b.n)

LessThan(l, r) ==
  LET a == ToNumber(l)
      b == ToNumber(r)
  IN IF a.t = "NaN" \/ b.t = "NaN" THEN Bool(FALSE) ELSE Bool(a.n < b.n)

\* the host's ===
StrictEquals(l, r) == IF l.t = "NaN" \/ r.t = "NaN" THEN Bool(FALSE) ELSE Bool(l = r)

(***************************************************************************)
(* Syntax nodes, as the parser hands them over.  An absent child (null in  *)
(* the tree) is NoNode.                                                    *)
(***************************************************************************)
NoNode == [type |-> "null"]

Identifier(name) == [type |-> "Identifier", name |-> name]
Literal(value) == [type |-> "Literal", value |-> value]
Program(body) == [type |-> "Program", body |-> body]
BlockStatement(body) == [type |-> "BlockStatement", body |-> body]
EmptyStatement == [type |-> "EmptyStatement"]
ExpressionStatement(e) == [type |-> "ExpressionStatement", expression |-> e]
FunctionDeclaration(name, params, body) ==
  [type |-> "FunctionDeclaration", id |-> Identifier(name),
   params |-> [i \in DOMAIN params |-> Identifier(params[i])],
   body |-> BlockStatement(body)]
FunctionExpression(params, body) ==
  [type |-> "FunctionExpression",
   params |-> [i \in DOMAIN params |-> Identifier(params[i])],
   body |-> BlockStatement(body)]
ReturnStatement(argument) == [type |-> "ReturnStatement", argument |-> argument]
BreakStatement == [type |-> "BreakStatement"]
ContinueStatement == [type |-> "ContinueStatement"]
AssignmentExpression(left, operator, right) ==
  [type |-> "AssignmentExpression", operator |-> operator, left |-> left,
   right |-> right]
UpdateExpression(argument, operator) ==
  [type |-> "UpdateExpression", operator |-> operator, argument |-> argument]
VariableDeclarator(name, init) == [id |-> Identifier(name), init |-> init]
VariableDeclaration(declarations) ==
  [type |-> "VariableDeclaration", declarations |-> declarations]
IfStatement(test, consequent, alternate) ==
  [type |-> "IfStatement", test |-> test, consequent |-> consequent,
   alternate |-> alternate]
ForStatement(init, test, update, body) ==
  [type |-> "ForStatement", init |-> init, test |-> test, update |-> update,
   body |-> body]
ForInStatement(left, right, body) ==
  [type |-> "ForInStatement", left |-> left, right |-> right, body |-> body]
WhileStatement(test, body) ==
  [type |-> "WhileStatement", test |-> test, body |-> body]
CatchClause(param, body) ==
  [param |-> Identifier(param), body |-> BlockStatement(body)]
TryStatement(block, handlers, finalizer) ==
  [type |-> "TryStatement", block |-> BlockStatement(block),
   handlers |-> handlers, finalizer |-> finalizer]
BinaryExpression(left, operator, right) ==
  [type |-> "BinaryExpression", operator |-> operator, left |-> left,
   right |-> right]
ThisExpression == [type |-> "ThisExpression"]
CallExpression(callee, arguments) ==
  [type |-> "CallExpression", callee |-> callee, arguments |-> arguments]
MemberExpression(object, property, computed) ==
  [type |-> "MemberExpression", object |-> object, property |-> property,
   computed |-> computed]
Property(key, value) == [key |-> key, value |-> value]
ObjectExpression(properties) ==
  [type |-> "ObjectExpression", properties |-> properties]
\* a statement kind the evaluator does not implement
ThrowStatement(argument) == [type |-> "ThrowStatement", argument |-> argument]

\* node.f, undefined (NoNode) when the node has no such child
Child(node, f) == IF f \in DOMAIN node THEN node[f] ELSE NoNode

(***************************************************************************)
(* The heap.  A cell is a host object: its prototype link (a value: Null,  *)
(* or a reference), its own properties, and which of them are not          *)
(* enumerable.  A closure made by getFunction also keeps its parameter     *)
(* names, its body and the context it was made in.                         *)
(***************************************************************************)
NoProps == [n \in {} |-> Undefined]

Object(proto, props, hidden) ==
  [proto |-> proto, props |-> props, hidden |-> hidden, callable |-> FALSE,
   params |-> <<>>, body |-> NoNode, scope |-> 0]

\* Object.create(parent)
ObjectCreate(parent) == Object(Ref(parent), NoProps, {})

\* obj[name], read by the host: own properties first, then along the
\* prototype links; the name __proto__ reads the link itself
RECURSIVE Get(_, _, _)
Get(h, object, name) ==
  IF ~IsRef(object) THEN Undefined
  ELSE IF name = "__proto__" THEN h[object.id].proto
  ELSE IF name \in DOMAIN h[object.id].props THEN h[object.id].props[name]
  ELSE Get(h, h[object.id].proto, name)

\* obj[name] = value, written by the host on cell id: the name __proto__
\* sets the prototype link when the value is an object or null (and is
\* ignored otherwise); any other name writes an own property, which is
\* enumerable when new
Put(h, id, name, value) ==
  IF name = "__proto__"
  THEN IF IsRef(value) \/ value.t \in {"null", "error"}
       THEN [h EXCEPT ![id].proto = value]
       ELSE h
  ELSE [h EXCEPT ![id].props = (name :> value) @@ @]

hasOwnProperty(h, object, key) ==
  IsRef(object) /\ key \in DOMAIN h[object.id].props

propertyIsEnumerable(h, object, key) ==
  hasOwnProperty(h, object, key) /\ key \notin h[object.id].hidden

\* for (key in value): the enumerable names of the value and of its
\* prototype chain (a name hidden by a nearer non-enumerable one is skipped)
RECURSIVE EnumerableKeys(_, _, _)
EnumerableKeys(h, value, shadowed) ==
  IF ~IsRef(value) THEN {}
  ELSE LET c == h[value.id]
       IN ((DOMAIN c.props \ c.hidden) \ shadowed)
            \cup EnumerableKeys(h, c.proto, shadowed \cup DOMAIN c.props)

(***************************************************************************)
(* The security guard (lib/primitives) and the loop guard                  *)
(* (lib/infinite-checker), as section 4.4 and 4.5 of the specification     *)
(* describe them.                                                          *)
(***************************************************************************)
\* primitive check: numeric, textual and boolean values are not containers.
\* The specification also lists null and undefined, while canSetProperty
\* answers true for a null object only when the check lets it through:
\* both readings are kept (nullIsPrimitive is chosen once, before the
\* evaluation starts).
isPrimative(value) ==
  \/ value.t \in {"number", "NaN", "string", "boolean"}
  \/ IsNullish(value) /\ nullIsPrimitive

\* prototype-parent lookup: the next link of the delegation chain, none at
\* the root
getPrototypeOf(h, value) == IF IsRef(value) THEN h[value.id].proto ELSE Null

\* property-container resolution: a heap object is indexed as it is
getPropertyObject(object, property) == object

\* InfiniteChecker.check: one more iteration; true when the ceiling is
\* exceeded
checkExceeds(count) == count + 1 > maxIterations

(***************************************************************************)
(* src/index.js, the helpers below evaluateAst                             *)
(***************************************************************************)
\* walk a provided object's prototypal hierarchy to retrieve an inherited
\* object
RECURSIVE objectForKey(_, _, _)
objectForKey(h, object, key) ==
  LET proto == getPrototypeOf(h, object)
  IN IF ~Truthy(proto) \/ hasOwnProperty(h, object, key)
     THEN object
     ELSE objectForKey(h, proto, key)

\* canSetProperty without the enumerability test: an own entry can be
\* written whether it is enumerable or not (the write-permission check as
\* it would be if propertyIsEnumerable were not consulted)
RECURSIVE canSetOwnProperty(_, _, _)
canSetOwnProperty(h, object, property) ==
  IF property = "__proto__" \/ isPrimative(object) THEN FALSE
  ELSE IF ~IsNullish(object)
  THEN IF hasOwnProperty(h, object, property)
       THEN TRUE
       ELSE canSetOwnProperty(h, getPrototypeOf(h, object), property)
  ELSE TRUE

\* determine if we have write access to a property
RECURSIVE canSetProperty(_, _, _)
canSetProperty(h, object, property) ==
  IF property = "__proto__" \/ isPrimative(object) THEN FALSE
  ELSE IF ~IsNullish(object)
  THEN IF hasOwnProperty(h, object, property)
       THEN propertyIsEnumerable(h, object, property)
       ELSE canSetProperty(h, getPrototypeOf(h, object), property)
  ELSE TRUE

\* generate a function with specified context: the closure's cell
getFunction(body, params, parentContext) ==
  [proto |-> Null, props |-> NoProps, hidden |-> {}, callable |-> TRUE,
   params |-> params, body |-> body, scope |-> parentContext]

getName(identifier) == identifier.name

\* the arguments array of a call
ArgumentsArray(args) ==
  Object(Null,
         [k \in {ToString(j - 1) : j \in DOMAIN args} \cup {"length"} |->
            IF k = "length" THEN Num(Len(args))
            ELSE args[CHOOSE j \in DOMAIN args : ToString(j - 1) = k]],
         {"length"})

\* arguments.forEach(function(arg, idx){ param = params[idx]; if (param)
\* context[param] = arg })
RECURSIVE BindParameters(_, _, _, _, _)
BindParameters(h, context, params, args, idx) ==
  IF idx > Len(args) THEN h
  ELSE BindParameters(
         IF idx <= Len(params) /\ params[idx] # ""
         THEN Put(h, context, params[idx], args[idx])
         ELSE h,
         context, params, args, idx + 1)

\* the function getFunction returns, up to its call of evaluateAst: the
\* heap with the invocation's context (cell Len(h) + 1) and its arguments
\* array (cell Len(h) + 2)
Invocation(h, fn, this, args) ==
  LET context == Len(h) + 1
      h1 == h \o <<ObjectCreate(h[fn].scope), ArgumentsArray(args)>>
      h2 == Put(h1, context, "this", IF IsNullish(this) THEN Null ELSE this)
      h3 == Put(h2, context, "arguments", Ref(context + 1))
  IN BindParameters(h3, context, h[fn].params, args, 1)

(***************************************************************************)
(* The machine.                                                            *)
(***************************************************************************)
\* walk(node) has been called in evaluateAst(tree, context)
Evaluating(node, context) == [mode |-> "walk", node |-> node, ctx |-> context]
\* a call of walk has returned val to the frame on top of the stack
Returned(val) == [mode |-> "return", val |-> val]
\* a failure is unwinding the host's call stack
Thrown(error) == [mode |-> "throw", val |-> error]

Walking(type) == ctl.mode = "walk" /\ ctl.node.type = type
Back(k) == ctl.mode = "return" /\ stack # <<>> /\ Head(stack).k = k
BackAt(k, ph) == Back(k) /\ Head(stack).ph = ph

NoNote == [op |-> "walk"]
Step(h, s, c) == [heap |-> h, stack |-> s, ctl |-> c, note |-> NoNote]
\* a step is taken while the heap and the numbers computed stay in bounds
Take(step) ==
  /\ Len(step.heap) <= MaxHeap
  /\ step.ctl.mode = "return" => InRange(step.ctl.val)
  /\ \A i \in DOMAIN step.heap : \A n \in DOMAIN step.heap[i].props :
       InRange(step.heap[i].props[n])
  /\ heap' = step.heap
  /\ stack' = step.stack
  /\ ctl' = step.ctl
  /\ last' = step.note
  /\ UNCHANGED nullIsPrimitive

\* the embedder's objects: 1, a prototype with a non-enumerable (built-in)
\* entry h and an enumerable entry g; 2, an object inheriting from it;
\* 3, the parent context handed to safeEval, inheriting from 1 as well
EmbedderHeap ==
  << Object(Null, [n \in {"g", "h"} |-> IF n = "g" THEN Num(1) ELSE Num(2)], {"h"}),
     Object(Ref(1), [n \in {"a", "b"} |-> Num(1)], {}),
     Object(Ref(1),
            [n \in {"x", "o"} |-> IF n = "x" THEN Num(1) ELSE Ref(2)],
            {}) >>

Init ==
  /\ heap = EmbedderHeap
  /\ stack = <<>>
  /\ ctl = [mode |-> "start"]
  /\ last = NoNote
  /\ nullIsPrimitive \in BOOLEAN

(***************************************************************************)
(* The scripts handed to safeEval, as syntax trees.                        *)
(***************************************************************************)
Var(name, init) == VariableDeclaration(<<VariableDeclarator(name, init)>>)
Do(expression) == ExpressionStatement(expression)
Number(n) == Literal(Num(n))
Increment(name) == Do(UpdateExpression(Identifier(name), "++"))
Call(name, arguments) == CallExpression(Identifier(name), arguments)
Return(n) == ReturnStatement(Number(n))

\* function f(){ var m = 0; <statements>; return 9 }  var r = f()
InFunction(statements) ==
  Program(<<FunctionDeclaration("f", <<>>,
              <<Var("m", Number(0))>> \o statements \o <<Return(9)>>),
            Var("r", Call("f", <<>>))>>)

\* the statements a loop body is made of
BodyStatements ==
  {Increment("m"), ContinueStatement, BreakStatement, Return(7),
   IfStatement(Identifier("m"), BlockStatement(<<BreakStatement>>), NoNode)}

Bodies ==
  {<<a>> : a \in BodyStatements}
    \cup {<<a, b>> : a \in BodyStatements, b \in BodyStatements}

\* for (; true; ) body, for (var i = 0; i < 2; i++) body, while (true) body,
\* for (var k in o) body
Loops(body) ==
  {ForStatement(NoNode, Literal(Bool(TRUE)), NoNode, BlockStatement(body)),
   ForStatement(Var("i", Number(0)),
                BinaryExpression(Identifier("i"), "<", Number(2)),
                UpdateExpression(Identifier("i"), "++"), BlockStatement(body)),
   WhileStatement(Literal(Bool(TRUE)), BlockStatement(body)),
   ForInStatement(Var("k", NoNode), Identifier("o"), BlockStatement(body))}

\* a loop as it stands, guarded by try / catch, inside another loop, and
\* inside a conditional
Settings(loop) ==
  {<<loop>>,
   <<TryStatement(<<loop>>, <<CatchClause("e", <<Increment("m")>>)>>, NoNode),
     Increment("m")>>,
   <<ForStatement(Var("j", Number(0)),
                  BinaryExpression(Identifier("j"), "<", Number(2)),
                  UpdateExpression(Identifier("j"), "++"),
                  BlockStatement(<<loop, Increment("m")>>))>>,
   <<IfStatement(Literal(Bool(TRUE)), BlockStatement(<<loop>>), NoNode)>>}

LoopPrograms ==
  {InFunction(statements) :
     statements \in UNION {Settings(loop) :
                             loop \in UNION {Loops(body) : body \in Bodies}}}

\* try { block } catch (e) { handler } finally { finalizer }
TryBlocks ==
  {<<Return(1)>>, <<Do(Call("nope", <<>>))>>, <<Increment("m")>>,
   <<WhileStatement(Literal(Bool(TRUE)), BlockStatement(<<>>))>>,
   <<ThrowStatement(Number(1))>>}

TryHandlers ==
  {<<>>, <<CatchClause("e", <<Return(2)>>)>>,
   <<CatchClause("e", <<Do(Call("nope", <<>>))>>)>>,
   <<CatchClause("e", <<Increment("m")>>)>>}

TryFinalizers ==
  {NoNode, BlockStatement(<<Increment("m")>>), BlockStatement(<<Return(3)>>)}

\* a try statement has a handler or a finalizer
TryPrograms ==
  {InFunction(<<TryStatement(block, handlers, finalizer), Increment("m")>>) :
     block \in TryBlocks,
     <<handlers, finalizer>> \in
       (TryHandlers \X TryFinalizers) \ {<< <<>>, NoNode >>}}

\* the targets and operators of an assignment or update
Targets ==
  {Identifier(n) : n \in {"x", "p", "u", "h", "g", "__proto__"}}
    \cup {MemberExpression(Identifier("o"), Identifier(n), FALSE) :
            n \in {"a", "h", "c", "__proto__"}}
    \cup {MemberExpression(Identifier("o"), Literal(Str("__proto__")), TRUE),
          MemberExpression(Identifier("o"), Literal(Num(0)), TRUE),
          MemberExpression(Number(5), Identifier("a"), FALSE),
          MemberExpression(Literal(Null), Identifier("a"), FALSE),
          MemberExpression(Identifier("p"), Identifier("a"), FALSE)}

Writes ==
  {AssignmentExpression(target, operator, Number(2)) :
     target \in Targets, operator \in {"=", "+=", "*="}}
    \cup {UpdateExpression(target, "++") : target \in Targets}

ParameterLists == {<<"p", "x">>, <<"__proto__", "p">>, <<"u", "h">>}

ArgumentLists == {<<>>, <<Number(3)>>, <<Identifier("o"), Number(4)>>}

\* function f(params){ write; return x }  var r = f(args)
ScopePrograms ==
  {Program(<<FunctionDeclaration("f", params, <<Do(write), ReturnStatement(Identifier("x"))>>),
             Var("r", Call("f", args))>>) :
     write \in Writes, params \in ParameterLists, args \in ArgumentLists}

\* function counter(){ var n = 0; return function(){ n += 1; return n } }
\* var c = counter(); var a = c(); var b = c()
Counter ==
  <<FunctionDeclaration("counter", <<>>,
      <<Var("n", Number(0)),
        ReturnStatement(FunctionExpression(<<>>,
          <<Do(AssignmentExpression(Identifier("n"), "+=", Number(1))),
            ReturnStatement(Identifier("n"))>>))>>),
    Var("c", Call("counter", <<>>)),
    Var("a", Call("c", <<>>)),
    Var("b", Call("c", <<>>))>>

ClosurePrograms ==
  {Program(Counter),
   \* a second counter, and a call from a frame with an n of its own
   Program(Counter \o
     <<Var("d", Call("counter", <<>>)),
       FunctionDeclaration("g", <<>>,
         <<Var("n", Number(5)), ReturnStatement(Call("d", <<>>))>>),
       Do(Call("g", <<>>)),
       Do(Call("c", <<>>))>>),
   \* a method call binds this
   Program(<<Var("z", ObjectExpression(
                 <<Property(Identifier("f"),
                            FunctionExpression(<<>>, <<ReturnStatement(ThisExpression)>>)),
                   Property(Literal(Str("y")), Number(1))>>)),
             Do(CallExpression(MemberExpression(Identifier("z"), Identifier("f"), FALSE), <<>>)),
             Do(MemberExpression(Identifier("z"), Literal(Str("y")), TRUE)),
             Do(BinaryExpression(Identifier("x"), "===", Number(1))),
             Do(BinaryExpression(Identifier("x"), "-", Number(1))),
             Do(BinaryExpression(Identifier("x"), "+", Number(1))),
             Do(BinaryExpression(Identifier("x"), "**", Number(1)))>>)}

\* declarations, an object literal and a catch parameter named __proto__
ProtoStatements ==
  {Var("__proto__", Identifier("o")), Var("__proto__", NoNode),
   Var("__proto__", Literal(Null)),
   FunctionDeclaration("__proto__", <<>>, <<>>),
   Var("z", ObjectExpression(<<Property(Identifier("__proto__"), Identifier("o")),
                               Property(Identifier("a"), Number(1))>>)),
   TryStatement(<<Do(Call("nope", <<>>))>>, <<CatchClause("__proto__", <<>>)>>, NoNode),
   ForInStatement(Identifier("__proto__"), Identifier("o"), BlockStatement(<<>>))}

ProtoPrograms ==
  {Program(<<statement, Do(Identifier("a"))>>) : statement \in ProtoStatements}
    \cup {InFunction(<<statement, Do(Identifier("a"))>>) : statement \in ProtoStatements}

Programs ==
  LoopPrograms \cup TryPrograms \cup ScopePrograms \cup ClosurePrograms
    \cup ProtoPrograms

\* 'eval' with a controlled environment: context = Object.create(
\* parentContext || {}), then evaluateAst(tree, context).  The scripts are
\* the syntax trees prepareAst hands on: parsing and hoisting are done
\* outside src/index.js, and every script above declares a name before it
\* uses it
safeEval ==
  /\ ctl.mode = "start"
  /\ \E src \in Programs, given \in BOOLEAN :
       LET h == IF given THEN heap ELSE Append(heap, Object(Null, NoProps, {}))
           parentContext == IF given THEN 3 ELSE Len(h)
       IN Take(Step(Append(h, ObjectCreate(parentContext)), <<>>,
                    Evaluating(src, Len(h) + 1)))

\* safeEval returns finalValue(evaluateAst(tree, context)), or the failure
\* reaches the embedder
finish ==
  /\ ctl.mode \in {"return", "throw"}
  /\ stack = <<>>
  /\ Take(Step(heap, stack,
               [mode |-> "done", failed |-> ctl.mode = "throw",
                val |-> finalValue(ctl.val)]))

\* the host's try statement of walk's TryStatement case catches a failure
\* raised in the guarded block, and one raised in the handler when a
\* finalizer is still to run
Catches(f) ==
  /\ f.k = "TryStatement"
  /\ f.ph = "block" \/ (f.ph = "handler" /\ f.node.finalizer # NoNode)

\* a failure leaves a pending call that does not catch it
unwind ==
  /\ ctl.mode = "throw"
  /\ stack # <<>>
  /\ ~Catches(Head(stack))
  /\ Take(Step(heap, Tail(stack), ctl))

\* if (!node) return
walkNothing ==
  /\ Walking("null")
  /\ Take(Step(heap, stack, Returned(Undefined)))

\* the index of the first statement at or after i that is no
\* EmptyStatement, 0 when there is none
NextStatement(nodes, i) ==
  LET rest == {j \in i..Len(nodes) : nodes[j].type # "EmptyStatement"}
  IN IF rest = {} THEN 0 ELSE CHOOSE j \in rest : \A m \in rest : j <= m

\* case 'Program', case 'BlockStatement': walkAll(node.body), up to its
\* first call of walk
walkAll ==
  /\ ctl.mode = "walk"
  /\ ctl.node.type \in {"Program", "BlockStatement"}
  /\ LET i == NextStatement(ctl.node.body, 1)
     IN IF i = 0
        THEN Take(Step(heap, stack, Returned(Null)))
        ELSE Take(Step(heap,
                       <<[k |-> "walkAll", node |-> ctl.node, ctx |-> ctl.ctx,
                          i |-> i]>> \o stack,
                       Evaluating(ctl.node.body[i], ctl.ctx)))

\* walkAll: a child's result; a ReturnValue ends the walk
walkAllResult ==
  /\ Back("walkAll")
  /\ LET f == Head(stack)
         j == NextStatement(f.node.body, f.i + 1)
     IN IF IsReturnValue(ctl.val) \/ j = 0
        THEN Take(Step(heap, Tail(stack), ctl))
        ELSE Take(Step(heap, <<[f EXCEPT !.i = j]>> \o Tail(stack),
                       Evaluating(f.node.body[j], f.ctx)))

\* case 'FunctionDeclaration'
walkFunctionDeclaration ==
  /\ Walking("FunctionDeclaration")
  /\ LET params == [i \in DOMAIN ctl.node.params |-> getName(ctl.node.params[i])]
         value == Len(heap) + 1
         h == Append(heap, getFunction(ctl.node.body, params, ctl.ctx))
     IN Take(Step(Put(h, ctl.ctx, ctl.node.id.name, Ref(value)), stack,
                  Returned(Ref(value))))

\* case 'FunctionExpression'
walkFunctionExpression ==
  /\ Walking("FunctionExpression")
  /\ LET params == [i \in DOMAIN ctl.node.params |-> getName(ctl.node.params[i])]
     IN Take(Step(Append(heap, getFunction(ctl.node.body, params, ctl.ctx)),
                  stack, Returned(Ref(Len(heap) + 1))))

\* case 'ReturnStatement'
walkReturnStatement ==
  /\ Walking("ReturnStatement")
  /\ Take(Step(heap, <<[k |-> "ReturnStatement", ctx |-> ctl.ctx]>> \o stack,
               Evaluating(ctl.node.argument, ctl.ctx)))

walkReturnArgument ==
  /\ Back("ReturnStatement")
  /\ Take(Step(heap, Tail(stack), Returned(ReturnValue("return", ctl.val))))

\* case 'BreakStatement'
walkBreakStatement ==
  /\ Walking("BreakStatement")
  /\ Take(Step(heap, stack, Returned(ReturnValue("break", Undefined))))

\* case 'ContinueStatement'
walkContinueStatement ==
  /\ Walking("ContinueStatement")
  /\ Take(Step(heap, stack, Returned(ReturnValue("continue", Undefined))))

\* case 'ExpressionStatement'
walkExpressionStatement ==
  /\ Walking("ExpressionStatement")
  /\ Take(Step(heap, stack, Evaluating(ctl.node.expression, ctl.ctx)))

\* case 'Literal'
walkLiteral ==
  /\ Walking("Literal")
  /\ Take(Step(heap, stack, Returned(ctl.node.value)))

\* case 'ThisExpression'
walkThisExpression ==
  /\ Walking("ThisExpression")
  /\ Take(Step(heap, stack, Returned(Get(heap, Ref(ctl.ctx), "this"))))

\* case 'Identifier'
walkIdentifier ==
  /\ Walking("Identifier")
  /\ Take(Step(heap, stack,
               Returned(finalValue(Get(heap, Ref(ctl.ctx), ctl.node.name)))))

(***************************************************************************)
(* setValue: set a value in the specified context if allowed               *)
(***************************************************************************)
SetValueFrame(ph, node, context, name, object, old) ==
  [k |-> "setValue", ph |-> ph, node |-> node, ctx |-> context,
   name |-> name, object |-> object, old |-> old]

\* object[name] = value, on the object setValue resolved (the properties of
\* a host Error object are not kept)
Store(h, object, name, value) ==
  IF IsRef(object) THEN Put(h, object.id, name, value) ELSE h

\* the operand of ++ and --, and what is stored back
Updated(old, operator) ==
  IF operator = "++" THEN Plus(old, Num(1)) ELSE Minus(old, Num(1))

\* setValue from its permission check on: object and name are resolved.
\* A denied write returns undefined; =, += and -= go on to walk(right)
\* (+= and -= after reading object[name]); ++ and -- store at once.
SetValueResolved(h, rest, node, context, object, name) ==
  LET operator == Child(node, "operator")
      allowed == canSetProperty(h, object, name)
      step ==
        IF ~allowed
        THEN Step(h, rest, Returned(Undefined))
        ELSE IF operator \in {"=", "undefined"}
        THEN Step(h, <<SetValueFrame("right", node, context, name, object,
                                     Undefined)>> \o rest,
                  Evaluating(Child(node, "right"), context))
        ELSE IF operator \notin {"+=", "-=", "++", "--"}
        THEN Step(h, rest, Returned(Undefined))
        ELSE IF IsNullish(object)
        THEN Step(h, rest, Thrown(TypeError))
        ELSE IF operator \in {"+=", "-="}
        THEN Step(h, <<SetValueFrame("right", node, context, name, object,
                                     Get(h, object, name))>> \o rest,
                  Evaluating(Child(node, "right"), context))
        ELSE Step(Store(h, object, name,
                        Updated(ToNumber(Get(h, object, name)), operator)),
                  rest, Returned(ToNumber(Get(h, object, name))))
  IN [step EXCEPT !.note = [op |-> "setValue", object |-> object,
                            name |-> name, allowed |-> allowed]]

\* case 'AssignmentExpression', case 'UpdateExpression': setValue(context,
\* left, right, operator), up to its first call of walk
setValue ==
  /\ ctl.mode = "walk"
  /\ ctl.node.type \in {"AssignmentExpression", "UpdateExpression"}
  /\ LET node == ctl.node
         left == IF node.type = "UpdateExpression" THEN node.argument
                 ELSE node.left
     IN IF left.type = "Identifier"
        THEN Take(SetValueResolved(heap, stack, node, ctl.ctx,
                                   objectForKey(heap, Ref(ctl.ctx), left.name),
                                   left.name))
        ELSE IF left.type = "MemberExpression"
        THEN IF left.computed
             THEN Take(Step(heap,
                            <<SetValueFrame("property", node, ctl.ctx, "",
                                            Undefined, Undefined)>> \o stack,
                            Evaluating(left.property, ctl.ctx)))
             ELSE Take(Step(heap,
                            <<SetValueFrame("object", node, ctl.ctx,
                                            left.property.name, Undefined,
                                            Undefined)>> \o stack,
                            Evaluating(left.object, ctl.ctx)))
        ELSE Take(SetValueResolved(heap, stack, node, ctl.ctx, Ref(ctl.ctx),
                                   "null"))

\* name = walk(left.property)
setValueProperty ==
  /\ BackAt("setValue", "property")
  /\ LET f == Head(stack)
         left == IF f.node.type = "UpdateExpression" THEN f.node.argument
                 ELSE f.node.left
     IN Take(Step(heap,
                  <<[f EXCEPT !.ph = "object", !.name = ToKey(ctl.val)]>>
                    \o Tail(stack),
                  Evaluating(left.object, f.ctx)))

\* object = walk(left.object), then the permission check
setValueObject ==
  /\ BackAt("setValue", "object")
  /\ LET f == Head(stack)
     IN Take(SetValueResolved(heap, Tail(stack), f.node, f.ctx, ctl.val,
                              f.name))

\* object[name] = walk(right), object[name] += walk(right),
\* object[name] -= walk(right)
setValueRight ==
  /\ BackAt("setValue", "right")
  /\ LET f == Head(stack)
         operator == Child(f.node, "operator")
         value == IF operator = "+=" THEN Plus(f.old, ctl.val)
                  ELSE IF operator = "-=" THEN Minus(f.old, ctl.val)
                  ELSE ctl.val
     IN IF IsNullish(f.object)
        THEN Take(Step(heap, Tail(stack), Thrown(TypeError)))
        ELSE Take(Step(Store(heap, f.object, f.name, value), Tail(stack),
                       Returned(value)))

(***************************************************************************)
(* walk: declarations and conditionals                                     *)
(***************************************************************************)
\* case 'VariableDeclaration': one declaration, from its initializer on
Declare(h, rest, node, context, i) ==
  IF i > Len(node.declarations)
  THEN Step(h, rest, Returned(Undefined))
  ELSE IF node.declarations[i].init # NoNode
  THEN Step(h,
            <<[k |-> "VariableDeclaration", node |-> node, ctx |-> context,
               i |-> i]>> \o rest,
            Evaluating(node.declarations[i].init, context))
  ELSE Step(Put(h, context, node.declarations[i].id.name, Undefined),
            <<[k |-> "VariableDeclaration", node |-> node, ctx |-> context,
               i |-> i]>> \o rest,
            Returned(Undefined))

walkVariableDeclaration ==
  /\ Walking("VariableDeclaration")
  /\ Take(Declare(heap, stack, ctl.node, ctl.ctx, 1))

\* context[declaration.id.name] = walk(declaration.init), and the next
\* declaration
walkVariableDeclarator ==
  /\ Back("VariableDeclaration")
  /\ LET f == Head(stack)
         d == f.node.declarations[f.i]
         h == IF d.init # NoNode THEN Put(heap, f.ctx, d.id.name, ctl.val)
              ELSE heap
     IN Take(Declare(h, Tail(stack), f.node, f.ctx, f.i + 1))

LoopFrame(k, ph, node, context) ==
  [k |-> k, ph |-> ph, node |-> node, ctx |-> context, count |-> 0, n |-> 0]

\* one more evaluation of a loop's body (counted up to the ceiling and two
\* more)
Iterated(f) ==
  [f EXCEPT !.n = IF @ < maxIterations + 2 THEN @ + 1 ELSE @]

\* case 'IfStatement'
walkIfStatement ==
  /\ Walking("IfStatement")
  /\ Take(Step(heap,
               <<[k |-> "IfStatement", node |-> ctl.node, ctx |-> ctl.ctx]>>
                 \o stack,
               Evaluating(ctl.node.test, ctl.ctx)))

\* the test's value: the consequent, the alternate, or (no alternate, and
\* no break before the next case) on into case 'ForStatement'
walkIfTest ==
  /\ Back("IfStatement")
  /\ LET f == Head(stack)
     IN IF Truthy(ctl.val)
        THEN Take(Step(heap, Tail(stack), Evaluating(f.node.consequent, f.ctx)))
        ELSE IF f.node.alternate # NoNode
        THEN Take(Step(heap, Tail(stack), Evaluating(f.node.alternate, f.ctx)))
        ELSE Take(Step(heap,
                       <<LoopFrame("ForStatement", "init", f.node, f.ctx)>>
                         \o Tail(stack),
                       Evaluating(Child(f.node, "init"), f.ctx)))

(***************************************************************************)
(* walk: loops                                                             *)
(***************************************************************************)
\* case 'ForStatement': infinite = InfiniteChecker(maxIterations), then
\* walk(node.init)
walkForStatement ==
  /\ Walking("ForStatement")
  /\ Take(Step(heap,
               <<LoopFrame("ForStatement", "init", ctl.node, ctl.ctx)>>
                 \o stack,
               Evaluating(Child(ctl.node, "init"), ctl.ctx)))

\* after walk(node.init) or walk(node.update): walk(node.test)
walkForTest ==
  /\ BackAt("ForStatement", "init") \/ BackAt("ForStatement", "update")
  /\ LET f == Head(stack)
     IN Take(Step(heap, <<[f EXCEPT !.ph = "test"]>> \o Tail(stack),
                  Evaluating(Child(f.node, "test"), f.ctx)))

\* the test's value: walk(node.body), or the loop ends
walkForTested ==
  /\ BackAt("ForStatement", "test")
  /\ LET f == Head(stack)
     IN IF Truthy(ctl.val)
        THEN Take(Step(heap, <<[f EXCEPT !.ph = "body"]>> \o Tail(stack),
                       Evaluating(Child(f.node, "body"), f.ctx)))
        ELSE Take(Step(heap, Tail(stack), Returned(Undefined)))

\* the body's result: handle early return, continue and break, else
\* infinite.check()
walkForBody ==
  /\ BackAt("ForStatement", "body")
  /\ LET f == Iterated(Head(stack))
         update == Step(heap, <<[f EXCEPT !.ph = "update"]>> \o Tail(stack),
                        Evaluating(Child(f.node, "update"), f.ctx))
     IN IF IsReturnValue(ctl.val)
        THEN IF ctl.val.type = "continue" THEN Take(update)
             ELSE IF ctl.val.type = "break"
             THEN Take(Step(heap, Tail(stack), Returned(Undefined)))
             ELSE Take(Step(heap, Tail(stack), ctl))
        ELSE IF checkExceeds(f.count)
        THEN Take(Step(heap, <<f>> \o Tail(stack), Thrown(InfiniteLoop)))
        ELSE Take([update EXCEPT !.stack[1].count = @ + 1])

\* case 'WhileStatement'
walkWhileStatement ==
  /\ Walking("WhileStatement")
  /\ Take(Step(heap,
               <<LoopFrame("WhileStatement", "test", ctl.node, ctl.ctx)>>
                 \o stack,
               Evaluating(ctl.node.test, ctl.ctx)))

walkWhileTested ==
  /\ BackAt("WhileStatement", "test")
  /\ LET f == Head(stack)
     IN IF Truthy(ctl.val)
        THEN Take(Step(heap, <<[f EXCEPT !.ph = "body"]>> \o Tail(stack),
                       Evaluating(f.node.body, f.ctx)))
        ELSE Take(Step(heap, Tail(stack), Returned(Undefined)))

\* walk(node.body) has returned (its result is dropped): infinite.check()
walkWhileBody ==
  /\ BackAt("WhileStatement", "body")
  /\ LET f == Iterated(Head(stack))
     IN IF checkExceeds(f.count)
        THEN Take(Step(heap, <<f>> \o Tail(stack), Thrown(InfiniteLoop)))
        ELSE Take(Step(heap,
                       <<[f EXCEPT !.ph = "test", !.count = @ + 1]>>
                         \o Tail(stack),
                       Evaluating(f.node.test, f.ctx)))

\* the next key of a for-in loop (the host fixes no order): setValue(
\* context, property, {type: 'Literal', value: key}); no key left ends the
\* loop
ForInNext(h, f, rest, keys) ==
  IF keys = {}
  THEN {Step(h, rest, Returned(Undefined))}
  ELSE {Step(h,
             <<[f EXCEPT !.ph = "assign", !.keys = keys \ {key}]>> \o rest,
             Evaluating([type |-> "AssignmentExpression",
                         operator |-> "undefined", left |-> f.property,
                         right |-> Literal(Str(key))], f.ctx)) : key \in keys}

\* case 'ForInStatement': infinite = InfiniteChecker(maxIterations), then
\* value = walk(node.right)
walkForInStatement ==
  /\ Walking("ForInStatement")
  /\ Take(Step(heap,
               <<[k |-> "ForInStatement", ph |-> "right", node |-> ctl.node,
                  ctx |-> ctl.ctx, count |-> 0, n |-> 0,
                  property |-> ctl.node.left, value |-> Undefined,
                  keys |-> {}]>> \o stack,
               Evaluating(ctl.node.right, ctl.ctx)))

\* the collection's value: a declared target is declared first
walkForInRight ==
  /\ BackAt("ForInStatement", "right")
  /\ LET f == Head(stack)
     IN IF f.property.type = "VariableDeclaration"
        THEN Take(Step(heap,
                       <<[f EXCEPT !.ph = "declaration", !.value = ctl.val]>>
                         \o Tail(stack),
                       Evaluating(f.property, f.ctx)))
        ELSE \E step \in ForInNext(heap, f, Tail(stack),
                                   EnumerableKeys(heap, ctl.val, {})) :
               Take(step)

\* property = property.declarations[0].id
walkForInDeclaration ==
  /\ BackAt("ForInStatement", "declaration")
  /\ LET f == [Head(stack) EXCEPT !.property = @.declarations[1].id]
     IN \E step \in ForInNext(heap, f, Tail(stack),
                              EnumerableKeys(heap, f.value, {})) :
          Take(step)

\* the key is assigned: walk(node.body)
walkForInAssigned ==
  /\ BackAt("ForInStatement", "assign")
  /\ LET f == Head(stack)
     IN Take(Step(heap, <<[f EXCEPT !.ph = "body"]>> \o Tail(stack),
                  Evaluating(f.node.body, f.ctx)))

\* the body's result: handle early return, continue and break, else
\* infinite.check()
walkForInBody ==
  /\ BackAt("ForInStatement", "body")
  /\ LET f == Iterated(Head(stack))
     IN IF IsReturnValue(ctl.val)
        THEN IF ctl.val.type = "continue"
             THEN \E step \in ForInNext(heap, f, Tail(stack), f.keys) :
                    Take(step)
             ELSE IF ctl.val.type = "break"
             THEN Take(Step(heap, Tail(stack), Returned(Undefined)))
             ELSE Take(Step(heap, Tail(stack), ctl))
        ELSE IF checkExceeds(f.count)
        THEN Take(Step(heap, <<f>> \o Tail(stack), Thrown(InfiniteLoop)))
        ELSE \E step \in ForInNext(heap, [f EXCEPT !.count = @ + 1],
                                   Tail(stack), f.keys) :
               Take(step)

(***************************************************************************)
(* walk: case 'TryStatement'.  The host's try / catch / finally: the       *)
(* block's result is dropped, a failure of the block is caught (and        *)
(* swallowed when the node has no handler), the finalizer runs on every    *)
(* path, and the case ends in break: walk returns undefined.               *)
(***************************************************************************)
NoError == [t |-> "none"]

\* finally { if (node.finalizer) walk(node.finalizer) }, then what was
\* pending: the handler's failure, or the end of the case
Finally(h, f, rest, pending) ==
  IF f.node.finalizer # NoNode
  THEN Step(h, <<[f EXCEPT !.ph = "finalizer", !.pending = pending]>> \o rest,
            Evaluating(f.node.finalizer, f.ctx))
  ELSE IF pending = NoError
  THEN Step(h, rest, Returned(Undefined))
  ELSE Step(h, rest, Thrown(pending))

walkTryStatement ==
  /\ Walking("TryStatement")
  /\ Take(Step(heap,
               <<[k |-> "TryStatement", ph |-> "block", node |-> ctl.node,
                  ctx |-> ctl.ctx, pending |-> NoError]>> \o stack,
               Evaluating(ctl.node.block, ctl.ctx)))

\* walk(node.block) has returned
walkTryBlock ==
  /\ BackAt("TryStatement", "block")
  /\ Take(Finally(heap, Head(stack), Tail(stack), NoError))

\* catch (error): context[catchClause.param.name] = error, then
\* walk(catchClause.body)
walkTryCatch ==
  /\ ctl.mode = "throw"
  /\ stack # <<>>
  /\ Head(stack).k = "TryStatement"
  /\ Head(stack).ph = "block"
  /\ LET f == Head(stack)
     IN IF Len(f.node.handlers) > 0
        THEN Take(Step(Put(heap, f.ctx, f.node.handlers[1].param.name, ctl.val),
                       <<[f EXCEPT !.ph = "handler"]>> \o Tail(stack),
                       Evaluating(f.node.handlers[1].body, f.ctx)))
        ELSE Take(Finally(heap, f, Tail(stack), NoError))

\* walk(catchClause.body) has returned
walkTryHandler ==
  /\ BackAt("TryStatement", "handler")
  /\ Take(Finally(heap, Head(stack), Tail(stack), NoError))

\* the handler has failed and the finalizer is still to run
walkTryHandlerThrow ==
  /\ ctl.mode = "throw"
  /\ stack # <<>>
  /\ Head(stack).k = "TryStatement"
  /\ Head(stack).ph = "handler"
  /\ Head(stack).node.finalizer # NoNode
  /\ Take(Finally(heap, Head(stack), Tail(stack), ctl.val))

\* walk(node.finalizer) has returned
walkTryFinalizer ==
  /\ BackAt("TryStatement", "finalizer")
  /\ IF Head(stack).pending = NoError
     THEN Take(Step(heap, Tail(stack), Returned(Undefined)))
     ELSE Take(Step(heap, Tail(stack), Thrown(Head(stack).pending)))

(***************************************************************************)
(* walk: expressions                                                       *)
(***************************************************************************)
\* the operators of case 'BinaryExpression'
BinaryOperators ==
  {"==", "===", "!=", "!==", "+", "-", "*", "/", "%", "<", "<=", ">", ">=",
   "|", "&", "^", "instanceof"}

walkBinaryExpression ==
  /\ Walking("BinaryExpression")
  /\ Take(Step(heap,
               <<[k |-> "BinaryExpression", ph |-> "left", node |-> ctl.node,
                  ctx |-> ctl.ctx, l |-> Undefined]>> \o stack,
               Evaluating(ctl.node.left, ctl.ctx)))

walkBinaryLeft ==
  /\ BackAt("BinaryExpression", "left")
  /\ LET f == Head(stack)
     IN Take(Step(heap,
                  <<[f EXCEPT !.ph = "right", !.l = ctl.val]>> \o Tail(stack),
                  Evaluating(f.node.right, f.ctx)))

\* switch (node.operator), with the operators the scripts use ('==' is
\* evaluated as l === r)
walkBinaryRight ==
  /\ BackAt("BinaryExpression", "right")
  /\ LET f == Head(stack)
         operator == f.node.operator
     IN /\ operator \in BinaryOperators => operator \in {"==", "===", "+", "-", "<"}
        /\ Take(Step(heap, Tail(stack),
                     CASE operator \in {"==", "==="} ->
                            Returned(StrictEquals(f.l, ctl.val))
                       [] operator = "+" -> Returned(Plus(f.l, ctl.val))
                       [] operator = "-" -> Returned(Minus(f.l, ctl.val))
                       [] operator = "<" -> Returned(LessThan(f.l, ctl.val))
                       [] OTHER -> Thrown(Unsupported)))

\* target.apply(object, args): the function getFunction made builds its
\* context and calls evaluateAst(body, context); anything else is not
\* callable
Apply(h, rest, target, object, args) ==
  IF IsRef(target) /\ h[target.id].callable
  THEN Step(Invocation(h, target.id, object, args),
            <<[k |-> "function", fn |-> target.id, ctx |-> Len(h) + 1,
               nargs |-> Len(args)]>> \o rest,
            Evaluating(h[target.id].body, Len(h) + 1))
  ELSE Step(h, rest, Thrown(TypeError))

\* case 'CallExpression': the arguments first
walkCallExpression ==
  /\ Walking("CallExpression")
  /\ LET f == [k |-> "CallExpression", ph |-> "arguments", node |-> ctl.node,
               ctx |-> ctl.ctx, args |-> <<>>, target |-> Undefined]
     IN IF Len(ctl.node.arguments) > 0
        THEN Take(Step(heap, <<f>> \o stack,
                       Evaluating(ctl.node.arguments[1], ctl.ctx)))
        ELSE Take(Step(heap, <<[f EXCEPT !.ph = "callee"]>> \o stack,
                       Evaluating(ctl.node.callee, ctl.ctx)))

walkCallArgument ==
  /\ BackAt("CallExpression", "arguments")
  /\ LET f == [Head(stack) EXCEPT !.args = Append(@, ctl.val)]
     IN IF Len(f.args) < Len(f.node.arguments)
        THEN Take(Step(heap, <<f>> \o Tail(stack),
                       Evaluating(f.node.arguments[Len(f.args) + 1], f.ctx)))
        ELSE Take(Step(heap, <<[f EXCEPT !.ph = "callee"]>> \o Tail(stack),
                       Evaluating(f.node.callee, f.ctx)))

\* target = walk(node.callee); a member callee's object is walked again
walkCallCallee ==
  /\ BackAt("CallExpression", "callee")
  /\ LET f == Head(stack)
     IN IF f.node.callee.type = "MemberExpression"
        THEN Take(Step(heap,
                       <<[f EXCEPT !.ph = "object", !.target = ctl.val]>>
                         \o Tail(stack),
                       Evaluating(f.node.callee.object, f.ctx)))
        ELSE Take(Apply(heap, Tail(stack), ctl.val, Null, f.args))

walkCallObject ==
  /\ BackAt("CallExpression", "object")
  /\ Take(Apply(heap, Tail(stack), Head(stack).target, ctl.val,
                Head(stack).args))

\* getFunction, after evaluateAst(body, context): a ReturnValue's value,
\* undefined otherwise
functionReturn ==
  /\ Back("function")
  /\ Take(Step(heap, Tail(stack),
               IF IsReturnValue(ctl.val) THEN Returned(ctl.val.value)
               ELSE Returned(Undefined)))

\* checkValue(obj[prop]) on obj = getPropertyObject(obj, prop)
MemberValue(h, rest, obj, prop) ==
  IF IsNullish(getPropertyObject(obj, prop))
  THEN Step(h, rest, Thrown(TypeError))
  ELSE Step(h, rest,
            Returned(finalValue(Get(h, getPropertyObject(obj, prop), prop))))

\* case 'MemberExpression'
walkMemberExpression ==
  /\ Walking("MemberExpression")
  /\ Take(Step(heap,
               <<[k |-> "MemberExpression", ph |-> "object",
                  node |-> ctl.node, ctx |-> ctl.ctx, obj |-> Undefined]>>
                 \o stack,
               Evaluating(ctl.node.object, ctl.ctx)))

walkMemberObject ==
  /\ BackAt("MemberExpression", "object")
  /\ LET f == Head(stack)
     IN IF f.node.computed
        THEN Take(Step(heap,
                       <<[f EXCEPT !.ph = "property", !.obj = ctl.val]>>
                         \o Tail(stack),
                       Evaluating(f.node.property, f.ctx)))
        ELSE Take(MemberValue(heap, Tail(stack), ctl.val, f.node.property.name))

walkMemberProperty ==
  /\ BackAt("MemberExpression", "property")
  /\ Take(MemberValue(heap, Tail(stack), Head(stack).obj, ToKey(ctl.val)))

\* prop.key.value || prop.key.name
KeyOf(key) ==
  IF key.type = "Literal" /\ Truthy(key.value) THEN ToKey(key.value)
  ELSE IF "name" \in DOMAIN key THEN key.name
  ELSE "undefined"

\* (prop.value === null) ? prop.value : walk(prop.value)
PropertyValue(prop) ==
  IF prop.value = NoNode THEN Literal(Null) ELSE prop.value

\* case 'ObjectExpression': obj = context['Object'](), then the properties
walkObjectExpression ==
  /\ Walking("ObjectExpression")
  /\ LET obj == Len(heap) + 1
         h == Append(heap, Object(Null, NoProps, {}))
     IN IF Len(ctl.node.properties) = 0
        THEN Take(Step(h, stack, Returned(Ref(obj))))
        ELSE Take(Step(h,
                       <<[k |-> "ObjectExpression", node |-> ctl.node,
                          ctx |-> ctl.ctx, i |-> 1, obj |-> obj]>> \o stack,
                       Evaluating(PropertyValue(ctl.node.properties[1]),
                                  ctl.ctx)))

\* obj[prop.key.value || prop.key.name] = value
walkObjectProperty ==
  /\ Back("ObjectExpression")
  /\ LET f == Head(stack)
         h == Put(heap, f.obj, KeyOf(f.node.properties[f.i].key), ctl.val)
     IN IF f.i < Len(f.node.properties)
        THEN Take(Step(h, <<[f EXCEPT !.i = @ + 1]>> \o Tail(stack),
                       Evaluating(PropertyValue(f.node.properties[f.i + 1]),
                                  f.ctx)))
        ELSE Take(Step(h, Tail(stack), Returned(Ref(f.obj))))

\* the node kinds walk's switch has a case for
NodeTypes ==
  {"Program", "BlockStatement", "FunctionDeclaration", "FunctionExpression",
   "ReturnStatement", "BreakStatement", "ContinueStatement",
   "ExpressionStatement", "AssignmentExpression", "UpdateExpression",
   "VariableDeclaration", "IfStatement", "ForStatement", "ForInStatement",
   "WhileStatement", "TryStatement", "Literal", "UnaryExpression",
   "ArrayExpression", "ObjectExpression", "NewExpression",
   "BinaryExpression", "LogicalExpression", "ThisExpression", "Identifier",
   "CallExpression", "MemberExpression", "ConditionalExpression"}

\* default: when an unsupported expression is encountered, throw an error
unsupportedExpression ==
  /\ ctl.mode = "walk"
  /\ ctl.node.type \notin NodeTypes \cup {"null"}
  /\ Take(Step(heap, stack, Thrown(Unsupported)))

Next ==
  \/ safeEval
  \/ finish
  \/ unwind
  \/ walkNothing
  \/ walkAll
  \/ walkAllResult
  \/ walkFunctionDeclaration
  \/ walkFunctionExpression
  \/ walkReturnStatement
  \/ walkReturnArgument
  \/ walkBreakStatement
  \/ walkContinueStatement
  \/ walkExpressionStatement
  \/ walkLiteral
  \/ walkThisExpression
  \/ walkIdentifier
  \/ setValue
  \/ setValueProperty
  \/ setValueObject
  \/ setValueRight
  \/ walkVariableDeclaration
  \/ walkVariableDeclarator
  \/ walkIfStatement
  \/ walkIfTest
  \/ walkForStatement
  \/ walkForTest
  \/ walkForTested
  \/ walkForBody
  \/ walkWhileStatement
  \/ walkWhileTested
  \/ walkWhileBody
  \/ walkForInStatement
  \/ walkForInRight
  \/ walkForInDeclaration
  \/ walkForInAssigned
  \/ walkForInBody
  \/ walkTryStatement
  \/ walkTryBlock
  \/ walkTryCatch
  \/ walkTryHandler
  \/ walkTryHandlerThrow
  \/ walkTryFinalizer
  \/ walkBinaryExpression
  \/ walkBinaryLeft
  \/ walkBinaryRight
  \/ walkCallExpression
  \/ walkCallArgument
  \/ walkCallCallee
  \/ walkCallObject
  \/ functionReturn
  \/ walkMemberExpression
  \/ walkMemberObject
  \/ walkMemberProperty
  \/ walkObjectExpression
  \/ walkObjectProperty
  \/ unsupportedExpression

Spec == Init /\ [][Next]_vars

(***************************************************************************)
(* The properties.  They are stated over the machine's states and steps,   *)
(* with the definitions of this section only: none of them is used by an   *)
(* action.                                                                 *)
(***************************************************************************)
LoopKinds == {"ForStatement", "WhileStatement"}

\* the pending for and while loops
LoopFrames ==
  {i \in DOMAIN stack :
     stack[i].k \in LoopKinds /\ stack[i].node.type = stack[i].k}

\* the pending invocations of closures, and the innermost of them
FunctionFrames == {i \in DOMAIN stack : stack[i].k = "function"}
InClosure == FunctionFrames # {}
CurrentCall ==
  stack[CHOOSE i \in FunctionFrames : \A j \in FunctionFrames : i <= j]

\* a control signal of the given type has come back to the pending call on
\* top
Signal(type) ==
  /\ ctl.mode = "return"
  /\ IsReturnValue(ctl.val)
  /\ ctl.val.type = type
  /\ stack # <<>>

\* the signal has come back to the body of the innermost for or while loop
AtLoopBody ==
  /\ 1 \in LoopFrames
  /\ Head(stack).ph = "body"

\* the pending call on top ends and hands on what came back to it
Propagates == stack' = Tail(stack) /\ ctl' = ctl

\* the pending call on top ends with the given value
EndsWith(val) == stack' = Tail(stack) /\ ctl' = Returned(val)

\* C1: the guard of a for or while loop counts every iteration, those ended
\* by continue included, and the loop runs ceiling + 1 iterations at most:
\* the guard's failure ends the last one
C1_GuardCountsEveryIteration ==
  \A i \in LoopFrames :
    /\ stack[i].n <= maxIterations + 1
    /\ \/ stack[i].count = stack[i].n
       \/ /\ stack[i].n = maxIterations + 1
          /\ stack[i].count = maxIterations
          /\ ctl = Thrown(InfiniteLoop)

\* C2: in a closure, a return signal that comes back to the body of a loop
\* ends the loop and is handed on, and the invocation returns its payload
C2_ReturnExitsLoop ==
  [][/\ (Signal("return") /\ InClosure /\ AtLoopBody) => Propagates
     /\ (Signal("return") /\ Head(stack).k = "function")
          => EndsWith(ctl.val.value)]_vars

\* C3: a break signal that comes back to the body of a for or while loop
\* ends that loop and goes no further; break or continue at the top of a
\* closure's body makes the invocation return undefined
C3_BreakExitsInnermostLoop ==
  [][/\ (Signal("break") /\ AtLoopBody) => EndsWith(Undefined)
     /\ ((Signal("break") \/ Signal("continue"))
           /\ Head(stack).k = "function") => EndsWith(Undefined)]_vars

\* C4: the guard's failure is caught by no try statement of the script: it
\* stays the pending failure (a finalizer may run on its way) until the
\* evaluate call ends with it
C4_GuardFailureNotCaught ==
  [][(ctl.mode = "throw" /\ ctl.val = InfiniteLoop) =>
       \/ ctl' = ctl
       \/ ctl' = [mode |-> "done", failed |-> TRUE, val |-> InfiniteLoop]
       \/ /\ stack' # <<>>
          /\ Head(stack').k = "TryStatement"
          /\ Head(stack').ph = "finalizer"
          /\ Head(stack').pending = InfiniteLoop]_vars

\* the parameters of the innermost invocation that got no argument
Unsupplied ==
  LET params == heap[CurrentCall.fn].params
  IN {params[i] : i \in (CurrentCall.nargs + 1)..Len(params)}

\* the simple name a write is about to store to: an update, or an
\* assignment whose right-hand side has been evaluated
StoringTo(name) ==
  \/ /\ Walking("UpdateExpression")
     /\ ctl.node.argument = Identifier(name)
  \/ /\ BackAt("setValue", "right")
     /\ Head(stack).node.type = "AssignmentExpression"
     /\ Head(stack).node.left = Identifier(name)

\* the frame at work
CurrentFrame == IF ctl.mode = "walk" THEN ctl.ctx ELSE Head(stack).ctx

\* C5: when an invocation starts, every parameter that got no argument
\* reads undefined in its frame, whatever the ancestors bind; and a write to
\* such a parameter changes no other frame (a parameter named __proto__ is
\* left to C6)
C5_UnsuppliedParameterIsUndefined ==
  /\ [](/\ stack # <<>>
        /\ Head(stack).k = "function"
        /\ ctl = Evaluating(heap[Head(stack).fn].body, Head(stack).ctx)
        => \A p \in Unsupplied \ {"__proto__"} :
             Get(heap, Ref(Head(stack).ctx), p) = Undefined)
  /\ [][\A p \in {"p", "x", "u", "h"} :
          (InClosure /\ StoringTo(p) /\ p \in Unsupplied
             /\ CurrentFrame = CurrentCall.ctx)
            => \A i \in DOMAIN heap \ {CurrentCall.ctx} :
                 heap'[i] = heap[i]]_vars

\* C6: no step writes the prototype link of a frame or object
C6_ProtoLinkNeverWritten ==
  [][\A i \in DOMAIN heap : heap'[i].proto = heap[i].proto]_vars

\* C7: every pending invocation runs in a frame whose parent is the frame
\* its closure captured; and the counter closure, called twice, returns 1
\* and then 2
C7_InvocationFrameExtendsCapturedFrame ==
  /\ \A i \in FunctionFrames :
       heap[stack[i].ctx].proto = Ref(heap[stack[i].fn].scope)
  /\ (/\ ctl.mode = "return"
      /\ Len(stack) = 1
      /\ Head(stack).k = "walkAll"
      /\ Head(stack).node = Program(Counter)
      /\ Head(stack).i = Len(Counter))
       => /\ Get(heap, Ref(Head(stack).ctx), "a") = Num(1)
          /\ Get(heap, Ref(Head(stack).ctx), "b") = Num(2)

\* the first object of a delegation chain that holds the name as an own
\* entry (null when none does)
RECURSIVE Holder(_, _, _)
Holder(h, object, name) ==
  IF ~IsRef(object) THEN Null
  ELSE IF name \in DOMAIN h[object.id].props THEN object
  ELSE Holder(h, h[object.id].proto, name)

\* the three cases of a denied write
DeniedName(name) == name = "__proto__"
DeniedPrimitive(object) ==
  object.t \in {"number", "NaN", "string", "boolean"}
    \/ (IsNullish(object) /\ nullIsPrimitive)
DeniedHidden(h, object, name) ==
  /\ IsRef(Holder(h, object, name))
  /\ name \in h[Holder(h, object, name).id].hidden
Denied(h, object, name) ==
  DeniedName(name) \/ DeniedPrimitive(object) \/ DeniedHidden(h, object, name)

\* an assignment or update has its target: the scope chain for a simple
\* name, the evaluated object for a member
TargetIs(object, name) ==
  \/ /\ ctl.mode = "walk"
     /\ ctl.node.type \in {"AssignmentExpression", "UpdateExpression"}
     /\ Child(ctl.node, IF ctl.node.type = "UpdateExpression"
                        THEN "argument" ELSE "left") = Identifier(name)
     /\ object = Ref(ctl.ctx)
  \/ /\ BackAt("setValue", "object")
     /\ Head(stack).name = name
     /\ object = ctl.val

\* the values that can be the target of a write, and the names written
TargetObjects ==
  {Undefined, Null} \cup {Num(n) : n \in 0..MaxNum}
    \cup {Ref(i) : i \in DOMAIN heap}
TargetNames == {"__proto__", "a", "b", "g", "h", "m", "o", "p", "r", "u", "x"}

\* C8: a denied assignment or update (the name is __proto__, the target is
\* a primitive, or the first holder of the name holds it non-enumerable)
\* raises no failure and leaves the property as it was in every frame and
\* object
C8_DeniedWriteIsNoOp ==
  [][\A object \in TargetObjects, name \in TargetNames :
       (TargetIs(object, name) /\ Denied(heap, object, name)) =>
         /\ ctl'.mode = "return"
         /\ stack' = IF ctl.mode = "walk" THEN stack ELSE Tail(stack)
         /\ \A i \in DOMAIN heap :
              Get(heap', Ref(i), name) = Get(heap, Ref(i), name)]_vars

\* a write to an entry held non-enumerable has just been denied
C8_DeniedWriteHappened ==
  /\ last.op = "setValue"
  /\ ~last.allowed
  /\ ~DeniedName(last.name)
  /\ ~DeniedPrimitive(last.object)
  /\ DeniedHidden(heap, last.object, last.name)
  /\ ctl = Returned(Undefined)

\* the first frame of a scope chain that holds the name as an own
\* enumerable entry (null when none does)
RECURSIVE Binder(_, _, _)
Binder(h, frame, name) ==
  IF ~IsRef(frame) THEN Null
  ELSE IF name \in DOMAIN h[frame.id].props \ h[frame.id].hidden THEN frame
  ELSE Binder(h, h[frame.id].proto, name)

\* C9: a write to a simple name lands in the first frame that holds the
\* name as an own enumerable entry; when no frame of the chain holds the
\* name it creates the binding in the current frame and changes no
\* ancestor
C9_WriteLandsInOwningOrCurrentFrame ==
  [][\A name \in TargetNames \ {"__proto__"} :
       StoringTo(name) =>
         LET binder == Binder(heap, Ref(CurrentFrame), name)
             holder == Holder(heap, Ref(CurrentFrame), name)
             frame  == IF IsRef(binder) THEN binder.id ELSE CurrentFrame
         IN (IsRef(binder) \/ ~IsRef(holder)) =>
              /\ ctl'.mode = "return"
              /\ name \in DOMAIN heap'[frame].props
              /\ \A i \in DOMAIN heap \ {frame} : heap'[i] = heap[i]]_vars

\* C10: in a closure, a control signal that comes back to a statement list
\* or to the block or handler of a try statement is handed on (the
\* finalizer, if any, runs first)
C10_SignalPropagates ==
  [][(/\ ctl.mode = "return"
      /\ IsReturnValue(ctl.val)
      /\ stack # <<>>
      /\ InClosure)
       => /\ Head(stack).k = "walkAll" => Propagates
          /\ (/\ Head(stack).k = "TryStatement"
              /\ Head(stack).ph \in {"block", "handler"}
              /\ Head(stack).node.finalizer = NoNode) => Propagates]_vars

====
